---- MODULE Spec2Model ----
(***************************************************************************)
(* A model of the gateway's batch-inference endpoints                      *)
(* (gateway/src/endpoints/batch_inference.rs) and of the GCP Vertex Gemini *)
(* provider's streaming path (gateway/src/inference/providers/             *)
(* gcp_vertex.rs).                                                         *)
(*                                                                         *)
(* Conventions.                                                            *)
(*  - Option<T>: None is the empty sequence, Some(x) is <<x>>.             *)
(*  - A Uuid is a natural number; Uuid::now_v7() returns the value of      *)
(*    `clock` and advances it, so minted ids are fresh and time-ordered,   *)
(*    and the timestamp of an id is the id itself.                         *)
(*  - Result<T, Error>: [ok |-> TRUE, val |-> v] or [ok |-> FALSE,         *)
(*    err |-> e], an error being a record with a `kind` field.             *)
(*  - The fields of a request body are drawn where the handler first       *)
(*    reads them; the handler keeps only what the code still uses later.   *)
(*    With `bare` set, the request bodies carry no optional array.         *)
(*  - The analytics store is external and outlives the process: Init draws *)
(*    the rows it already holds from a small set of histories.             *)
(***************************************************************************)
EXTENDS Integers, Sequences, FiniteSets, TLC

VARIABLES
    bare,              \* whether the submits carry no optional array
    functionVariants,  \* config: the names of the function's variants
    clock,             \* source of Uuid::now_v7()
    bmiRows,           \* table BatchModelInference (a set of rows)
    brRows,            \* table BatchRequest, in the order the rows were written
    submits,           \* number of batch submits admitted so far
    sub,               \* the request running start_batch_inference_handler
    poll,              \* the last run of poll_batch_inference_handler
    upstream,          \* GCP Vertex: events the event source has still to deliver
    gen,               \* GCP Vertex: the generator of stream_gcp_vertex_gemini
    call,              \* GCP Vertex: the infer_stream call and its consumer
    unary,             \* GCP Vertex: the infer call
    conv               \* a conversion of the request body run on its own

vars == <<bare, functionVariants, clock, bmiRows, brRows, submits, sub, poll,
          upstream, gen, call, unary, conv>>

batchVars == <<bare, functionVariants, bmiRows, brRows, submits, sub, poll>>
streamVars == <<upstream, gen, call>>

-----------------------------------------------------------------------------
(* Bounds *)

MaxN == 2          \* largest number of inputs of a batch submit
MaxSubmits == 1    \* number of batch submits the model admits
MaxEvents == 4     \* largest number of events one upstream stream delivers

-----------------------------------------------------------------------------
(* Option, Result and small helpers *)

None == <<>>
Some(x) == <<x>>
IsSome(o) == o # <<>>
Unwrap(o) == o[1]

Ok(v) == [ok |-> TRUE, val |-> v]
Err(e) == [ok |-> FALSE, err |-> e]

Min(a, b) == IF a <= b THEN a ELSE b

\* Vectors of length 0..k whose entries come from E
VecsUpTo(E, k) == UNION {[1..m -> E] : m \in 0..k}

-----------------------------------------------------------------------------
(* Identifiers *)

\* validate_episode_id: an id whose timestamp lies before the fixed floor is
\* rejected.
EpisodeFloor == 1
EarlyId == EpisodeFloor - 1      \* an id a caller built from an old timestamp
ClientId == EpisodeFloor         \* a valid id supplied by a caller
OldBatch == EpisodeFloor + 1     \* batch already in the store at start
OldInference == EpisodeFloor + 2 \* its one inference
UnknownId == EpisodeFloor + 3    \* an id no table holds
FirstMinted == EpisodeFloor + 4  \* first value of Uuid::now_v7()

ValidateEpisodeId(id) ==
    IF id < EpisodeFloor
    THEN Err("Invalid Episode ID: Timestamp is too early")
    ELSE Ok(id)

-----------------------------------------------------------------------------
(* Errors of the batch endpoints *)

\* "<field> vector length (<actual>) does not match number of inferences (<n>)"
\* and "Number of episode_ids (<actual>) does not match number of inputs (<n>)"
InvalidRequestLen(field, actual, n) ==
    [kind |-> "InvalidRequest", field |-> field, actual |-> actual, expected |-> n]

InvalidRequestMsg(message) ==
    [kind |-> "InvalidRequest", field |-> "", message |-> message]

BatchInputValidation(index, message) ==
    [kind |-> "BatchInputValidation", index |-> index, message |-> message]

-----------------------------------------------------------------------------
(* Conversions of the parallel arrays of a submit *)

\* impl TryFrom<BatchOutputSchemasWithSize> for Vec<Option<DynamicJSONSchema>>
BatchOutputSchemasTryFrom(schemas, num_inferences) ==
    IF IsSome(schemas)
    THEN IF Len(Unwrap(schemas)) # num_inferences
         THEN Err(InvalidRequestLen("output_schemas", Len(Unwrap(schemas)),
                                    num_inferences))
         ELSE Ok(Unwrap(schemas))
    ELSE Ok([i \in 1..num_inferences |-> None])

\* The ids of `.map(|id| id.unwrap_or_else(Uuid::now_v7))`: the k-th absent
\* entry gets the k-th id minted from clk on.
MintedBefore(ids, i) == Cardinality({j \in 1..(i - 1) : ~IsSome(ids[j])})

\* A faulty FillEpisodeIds: the absent entries all get the floor id.
FillEpisodeIdsFloor(ids, clk) ==
    [i \in 1..Len(ids) |-> IF IsSome(ids[i]) THEN Unwrap(ids[i]) ELSE EpisodeFloor]

FillEpisodeIds(ids, clk) ==
    [i \in 1..Len(ids) |->
        IF IsSome(ids[i]) THEN Unwrap(ids[i]) ELSE clk + MintedBefore(ids, i)]

\* `vec![Uuid::now_v7(); num_inferences]`: one id, cloned
RepeatEpisodeId(num_inferences, clk) == [i \in 1..num_inferences |-> clk]

\* A faulty BatchEpisodeIdsTryFrom: the last invalid id is reported.
BatchEpisodeIdsTryFromLast(episode_ids, num_inferences, clk) ==
    IF IsSome(episode_ids) /\ Len(Unwrap(episode_ids)) # num_inferences
    THEN Err(InvalidRequestLen("episode_ids", Len(Unwrap(episode_ids)),
                               num_inferences))
    ELSE LET ids == IF IsSome(episode_ids)
                    THEN FillEpisodeIds(Unwrap(episode_ids), clk)
                    ELSE RepeatEpisodeId(num_inferences, clk)
             minted == IF IsSome(episode_ids)
                       THEN MintedBefore(Unwrap(episode_ids),
                                         Len(Unwrap(episode_ids)) + 1)
                       ELSE 1
             bad == {i \in 1..Len(ids) : ~ValidateEpisodeId(ids[i]).ok}
         IN IF bad # {}
            THEN LET i == CHOOSE j \in bad : \A k \in bad : j >= k
                 IN Err(BatchInputValidation(i - 1, ValidateEpisodeId(ids[i]).err))
            ELSE [ok |-> TRUE, val |-> ids, minted |-> minted]

\* impl TryFrom<BatchEpisodeIdsWithSize> for BatchEpisodeIds.
\* val: the ids; minted: the number of calls of Uuid::now_v7().
BatchEpisodeIdsTryFrom(episode_ids, num_inferences, clk) ==
    IF IsSome(episode_ids) /\ Len(Unwrap(episode_ids)) # num_inferences
    THEN Err(InvalidRequestLen("episode_ids", Len(Unwrap(episode_ids)),
                               num_inferences))
    ELSE LET ids == IF IsSome(episode_ids)
                    THEN FillEpisodeIds(Unwrap(episode_ids), clk)
                    ELSE RepeatEpisodeId(num_inferences, clk)
             minted == IF IsSome(episode_ids)
                       THEN MintedBefore(Unwrap(episode_ids),
                                         Len(Unwrap(episode_ids)) + 1)
                       ELSE 1
             bad == {i \in 1..Len(ids) : ~ValidateEpisodeId(ids[i]).ok}
         IN IF bad # {}
            THEN LET i == CHOOSE j \in bad : \A k \in bad : j <= k
                 IN Err(BatchInputValidation(i - 1, ValidateEpisodeId(ids[i]).err))
            ELSE [ok |-> TRUE, val |-> ids, minted |-> minted]

\* The fields of BatchChatCompletionInferenceParams, in the order in which the
\* conversion checks them.
ParamFields ==
    <<"temperature", "max_tokens", "seed", "top_p", "presence_penalty",
      "frequency_penalty">>

ParamFieldSet == {ParamFields[i] : i \in 1..Len(ParamFields)}

\* A faulty MismatchedParams: temperature is not looked at.
MismatchedParamsButFirst(params, num_inferences) ==
    {i \in 2..Len(ParamFields) :
        /\ IsSome(params[ParamFields[i]])
        /\ Len(Unwrap(params[ParamFields[i]])) # num_inferences}

\* The fields whose provided Vec has a length other than num_inferences
MismatchedParams(params, num_inferences) ==
    {i \in 1..Len(ParamFields) :
        /\ IsSome(params[ParamFields[i]])
        /\ Len(Unwrap(params[ParamFields[i]])) # num_inferences}

\* A faulty ParamAt: the array is read from its end.
ParamAtFromEnd(params, f, i) ==
    IF IsSome(params[f]) /\ i <= Len(Unwrap(params[f]))
    THEN Unwrap(params[f])[Len(Unwrap(params[f])) + 1 - i]
    ELSE None

\* `iter.next().unwrap_or(None)` on the i-th iteration of the building loop
ParamAt(params, f, i) ==
    IF IsSome(params[f]) /\ i <= Len(Unwrap(params[f]))
    THEN Unwrap(params[f])[i]
    ELSE None

\* impl TryFrom<BatchChatCompletionParamsWithSize>
\*   for Vec<ChatCompletionInferenceParams>
BatchChatCompletionParamsTryFrom(params, num_inferences) ==
    LET bad == MismatchedParams(params, num_inferences)
    IN IF bad # {}
       THEN LET i == CHOOSE j \in bad : \A k \in bad : j <= k
            IN Err(InvalidRequestLen(ParamFields[i],
                                     Len(Unwrap(params[ParamFields[i]])),
                                     num_inferences))
       ELSE Ok([i \in 1..num_inferences |->
                   [f \in ParamFieldSet |-> ParamAt(params, f, i)]])

\* impl TryFrom<BatchInferenceParamsWithSize> for Vec<InferenceParams>
BatchInferenceParamsTryFrom(params, num_inferences) ==
    LET r == BatchChatCompletionParamsTryFrom(params.chat_completion,
                                              num_inferences)
    IN IF r.ok
       THEN Ok([i \in 1..num_inferences |-> [chat_completion |-> r.val[i]]])
       ELSE r

-----------------------------------------------------------------------------
(* Configuration and inputs of the batch endpoints *)

VariantNames == {"v1", "v2"}

\* The model and provider a variant is bound to
ModelOf(v) == IF v = "v1" THEN "m1" ELSE "m2"
ProviderOf(v) == IF v = "v1" THEN "p1" ELSE "p2"

\* What variant.start_batch_inference may return
StartOutcomes == {"Ok", "ClientError", "ServerError", "InferenceClient"}

\* Option<Vec<Option<T>>> bodies of the arrays the handler reads
OutputSchemasInputs == {None} \cup {Some(v) : v \in VecsUpTo({None}, MaxN + 1)}
TagsInputs == {None} \cup {Some(v) : v \in VecsUpTo({None, Some("t")}, MaxN + 1)}
EpisodeIdInputs ==
    {None} \cup
    {Some(v) : v \in VecsUpTo({None, Some(EarlyId), Some(ClientId)}, MaxN + 1)}

NoParams == [f \in ParamFieldSet |-> None]
ParamVecs == {None} \cup {Some(v) : v \in VecsUpTo({None}, MaxN + 1)}

\* The handler is run on params with at most two of the six arrays provided.
ProvidedParams ==
    {[f \in ParamFieldSet |->
        IF f = f1 THEN a1 ELSE IF f = f2 THEN a2 ELSE None] :
        f1 \in ParamFieldSet, f2 \in ParamFieldSet, a1 \in ParamVecs,
        a2 \in ParamVecs}

\* What the handler draws for an optional array of the request body: the
\* first submit of a run carries any of the inputs, a later one none.
Plain == bare \/ submits > 1
Drawn(inputs) == IF Plain THEN {None} ELSE inputs
HandlerParams == IF Plain THEN {NoParams} ELSE ProvidedParams

-----------------------------------------------------------------------------
(* The analytics store *)

BatchRequestRow(batch_id, id, model_name, model_provider_name, status, errors) ==
    [batch_id |-> batch_id, id |-> id, model_name |-> model_name,
     model_provider_name |-> model_provider_name, status |-> status,
     errors |-> errors, timestamp |-> id]

\* BatchRequestInsert::new: the id is minted here, absent errors default to
\* the empty map; the row's timestamp is that of its id.
BatchRequestInsertNew(batch_id, model_name, model_provider_name, status, errors, clk) ==
    BatchRequestRow(batch_id, clk, model_name, model_provider_name, status,
                    IF IsSome(errors) THEN Unwrap(errors) ELSE <<>>)

OldRow(status, ts) ==
    [BatchRequestRow(OldBatch, ts, "m1", "p1", status, <<>>) EXCEPT
        !.timestamp = ts]

\* Histories of the batch the store already holds: none, pending, finished,
\* and one whose rows arrived out of timestamp order.
InitialHistories ==
    { <<>>,
      <<OldRow("Pending", 1)>>,
      <<OldRow("Pending", 1), OldRow("Completed", 2)>>,
      <<OldRow("Pending", 1), OldRow("Failed", 2)>>,
      <<OldRow("Completed", 2), OldRow("Pending", 1)>> }

OldInferenceRows ==
    {[inference_id |-> OldInference, batch_id |-> OldBatch,
      function_name |-> "f", variant_name |-> "v1", episode_id |-> ClientId,
      model_name |-> "m1", model_provider_name |-> "p1", tags |-> None]}

\* Table BatchIdByInferenceId: inference_id -> batch_id of every inference row
BatchIdByInferenceId(bmi) ==
    {[inference_id |-> r.inference_id, batch_id |-> r.batch_id] : r \in bmi}

\* A faulty LatestRows: the row written last is taken.
LatestRowsLastWritten(br, batch_ids) ==
    LET hits == {k \in 1..Len(br) : br[k].batch_id \in batch_ids}
    IN {k \in hits : \A j \in hits : j <= k}

\* ORDER BY timestamp DESC LIMIT 1 over the rows of the given batches: the
\* indices of the rows the query may return
LatestRows(br, batch_ids) ==
    LET hits == {k \in 1..Len(br) : br[k].batch_id \in batch_ids}
    IN {k \in hits : \A j \in hits : br[j].timestamp <= br[k].timestamp}

-----------------------------------------------------------------------------
(* start_batch_inference_handler *)

SubIdle ==
    [pc |-> "idle", n |-> 0, pinned |-> None, candidates |-> {},
     initial |-> {}, episode_ids |-> <<>>, attempts |-> <<>>,
     variant_errors |-> <<>>, variant_name |-> "", result |-> None,
     tags |-> None, omitted |-> FALSE,
     mismatched |-> {}, writes |-> <<>>, response |-> None]

\* Beside the handler's own values the record keeps, for the properties:
\* omitted (the request had no episode_ids),
\* initial (the candidates the loop starts from), attempts (the variants
\* tried, with what they returned), mismatched (the arrays read whose length
\* is not n) and writes (the writes sent to the store, with their outcome).

\* `return Err(..)` / `return Ok(..)` of the handler
Finish(s, response) == [s EXCEPT !.pc = "done", !.response = Some(response)]

\* Lines 107-115: function lookup and the count of inputs
SubmitStart ==
    /\ sub.pc \in {"idle", "done"}
    /\ submits < MaxSubmits
    /\ submits' = submits + 1
    /\ \E known \in BOOLEAN, n \in 0..MaxN :
        sub' = IF ~known
               THEN Finish(SubIdle, Err([kind |-> "UnknownFunction"]))
               ELSE IF n = 0
               THEN Finish(SubIdle, Err(InvalidRequestMsg("No inputs provided")))
               ELSE [SubIdle EXCEPT !.pc = "tools", !.n = n]
    /\ poll' = None
    /\ UNCHANGED <<bare, functionVariants, clock, bmiRows, brRows, streamVars, unary, conv>>

\* Lines 116-124: dynamic tool params, output schemas and tool configs.
\* The conversions of the tool params live outside this file: they succeed or
\* fail.
SubmitToolsAndSchemas ==
    /\ sub.pc = "tools"
    /\ \E toolsOk \in BOOLEAN, schemas \in Drawn(OutputSchemasInputs), configOk \in BOOLEAN :
        LET r == BatchOutputSchemasTryFrom(schemas, sub.n)
        IN sub' = IF ~toolsOk
                  THEN Finish(sub, Err([kind |-> "DynamicToolParams"]))
                  ELSE IF ~r.ok
                  THEN Finish([sub EXCEPT !.mismatched = {"output_schemas"}], r)
                  ELSE IF ~configOk
                  THEN Finish(sub, Err([kind |-> "ToolConfig"]))
                  ELSE [sub EXCEPT !.pc = "variants"]
    /\ UNCHANGED <<bare, functionVariants, clock, bmiRows, brRows, submits, poll, streamVars, unary, conv>>

\* A faulty RetainPinned: the pin is ignored.
RetainPinnedNot(candidate_variant_names, pinned) ==
    candidate_variant_names

\* Lines 151-153: `candidate_variant_names.retain(|k| k == variant_name)`
\* when a variant is pinned
RetainPinned(candidate_variant_names, pinned) ==
    IF IsSome(pinned)
    THEN {k \in candidate_variant_names : k = Unwrap(pinned)}
    ELSE candidate_variant_names

\* Lines 125-162: the candidates, the validation of the inputs and the pin.
\* invalid: the index of the first input function.validate_input rejects.
SubmitVariants ==
    /\ sub.pc = "variants"
    /\ \E invalid \in {None} \cup {Some(i) : i \in 0..(sub.n - 1)},
          pinned \in {None} \cup {Some(v) : v \in VariantNames} :
        LET retained == RetainPinned(functionVariants, pinned)
        IN sub' = IF functionVariants = {}
                  THEN Finish(sub, Err([kind |-> "InvalidFunctionVariants"]))
                  ELSE IF IsSome(invalid)
                  THEN Finish(sub, Err(BatchInputValidation(Unwrap(invalid), "input")))
                  ELSE IF retained = {}
                  THEN Finish([sub EXCEPT !.pinned = pinned],
                              Err([kind |-> "UnknownVariant", name |-> Unwrap(pinned)]))
                  ELSE [sub EXCEPT !.pc = "episode_ids", !.pinned = pinned,
                                   !.candidates = retained, !.initial = retained]
    /\ UNCHANGED <<bare, functionVariants, clock, bmiRows, brRows, submits, poll, streamVars, unary, conv>>

\* Lines 164-166: the episode ids
SubmitEpisodeIds ==
    /\ sub.pc = "episode_ids"
    /\ \E episode_ids \in Drawn(EpisodeIdInputs) :
        LET r == BatchEpisodeIdsTryFrom(episode_ids, sub.n, clock)
        IN IF r.ok
           THEN /\ sub' = [sub EXCEPT !.pc = "params", !.episode_ids = r.val,
                                      !.omitted = ~IsSome(episode_ids)]
                /\ clock' = clock + r.minted
           ELSE /\ sub' = Finish([sub EXCEPT !.mismatched =
                                    IF r.err.kind = "InvalidRequest"
                                    THEN {"episode_ids"} ELSE {}], r)
                /\ clock' = clock
    /\ UNCHANGED <<bare, functionVariants, bmiRows, brRows, submits, poll, streamVars, unary, conv>>

\* A faulty SubmitParams: the params are converted after a variant was asked
\* to start the batch.
SubmitParamsAfterStart ==
    /\ sub.pc = "params"
    /\ \E p \in HandlerParams, v \in sub.candidates :
        LET r == BatchInferenceParamsTryFrom([chat_completion |-> p], sub.n)
        IN sub' = IF r.ok
                  THEN [sub EXCEPT !.pc = "loop"]
                  ELSE Finish([sub EXCEPT
                                  !.attempts = <<[variant |-> v,
                                                  key |-> sub.episode_ids[1],
                                                  outcome |-> "ServerError"]>>,
                                  !.mismatched =
                                  {ParamFields[i] : i \in MismatchedParams(p, sub.n)}],
                              r)
    /\ UNCHANGED <<bare, functionVariants, clock, bmiRows, brRows, submits, poll, streamVars, unary, conv>>

\* Lines 182-212: the inference params
SubmitParams ==
    /\ sub.pc = "params"
    /\ \E p \in HandlerParams :
        LET r == BatchInferenceParamsTryFrom([chat_completion |-> p], sub.n)
        IN sub' = IF r.ok
                  THEN [sub EXCEPT !.pc = "loop"]
                  ELSE Finish([sub EXCEPT !.mismatched =
                                  {ParamFields[i] : i \in MismatchedParams(p, sub.n)}],
                              r)
    /\ UNCHANGED <<bare, functionVariants, clock, bmiRows, brRows, submits, poll, streamVars, unary, conv>>

\* A faulty FirstEpisodeId: the last episode id is taken.
LastEpisodeId(episode_ids) == episode_ids[Len(episode_ids)]

\* Lines 205-209: `episode_ids.first()`
FirstEpisodeId(episode_ids) == episode_ids[1]

\* sample_variant: picks one of the candidates under the key episode_id and
\* removes it from them (the weights of the variants are not modelled, so
\* any candidate can be the one the key selects)
SampleVariant(candidates, episode_id) ==
    {[variant_name |-> v, rest |-> candidates \ {v}, key |-> episode_id] :
        v \in candidates}

\* variant.start_batch_inference: on success the batch gets a fresh batch_id
\* and one fresh inference_id per input.
StartBatchInference(v, n, clk, outcome) ==
    IF outcome = "Ok"
    THEN Ok([batch_id |-> clk,
             inference_ids |-> [i \in 1..n |-> clk + i],
             model_name |-> ModelOf(v),
             model_provider_name |-> ProviderOf(v)])
    ELSE Err([kind |-> outcome, variant |-> v])

\* A faulty HandleVariantResult: the error of a failed variant is dropped.
HandleVariantResultUnrecorded(s, variant_name, result) ==
    IF result.ok
    THEN [s EXCEPT !.pc = "write", !.result = Some(result.val),
                   !.variant_name = variant_name]
    ELSE s

\* Lines 235-246: what the loop does with the result of one variant
HandleVariantResult(s, variant_name, result) ==
    IF result.ok
    THEN [s EXCEPT !.pc = "write", !.result = Some(result.val),
                   !.variant_name = variant_name]
    ELSE [s EXCEPT !.variant_errors = (variant_name :> result.err) @@ @]

\* Lines 213-246: one iteration of the variant loop
SubmitVariantAttempt ==
    /\ sub.pc = "loop"
    /\ sub.candidates # {}
    /\ \E pick \in SampleVariant(sub.candidates, FirstEpisodeId(sub.episode_ids)), outcome \in StartOutcomes :
        LET result == StartBatchInference(pick.variant_name, sub.n, clock, outcome)
            s == [sub EXCEPT !.candidates = pick.rest,
                             !.attempts = Append(@, [variant |-> pick.variant_name,
                                                     key |-> pick.key,
                                                     outcome |-> outcome])]
        IN /\ sub' = HandleVariantResult(s, pick.variant_name, result)
           /\ clock' = IF result.ok THEN clock + sub.n + 1 ELSE clock
    /\ UNCHANGED <<bare, functionVariants, bmiRows, brRows, submits, poll, streamVars, unary, conv>>

\* Lines 213, 275-279: no candidate is left
SubmitAllVariantsFailed ==
    /\ sub.pc = "loop"
    /\ sub.candidates = {}
    /\ sub' = Finish(sub, Err([kind |-> "AllVariantsFailed",
                               errors |-> sub.variant_errors]))
    /\ UNCHANGED <<bare, functionVariants, clock, bmiRows, brRows, submits, poll, streamVars, unary, conv>>

-----------------------------------------------------------------------------
(* write_inference *)

\* `metadata.tags.unwrap_or_default().into_iter().chain(repeat(None))`, i-th item
TagAt(tags, i) ==
    IF IsSome(tags) /\ i <= Len(Unwrap(tags)) THEN Unwrap(tags)[i] ELSE None

\* A faulty BatchModelInferenceRows: the tags are zipped as they are, without
\* `.chain(repeat(None))`, so the rows stop where the tags stop.
BatchModelInferenceRowsZipTags(inputs_len, result, function_name, variant_name, episode_ids, tags) ==
    {[inference_id |-> result.inference_ids[i],
      batch_id |-> result.batch_id,
      function_name |-> function_name,
      variant_name |-> variant_name,
      episode_id |-> episode_ids[i],
      model_name |-> result.model_name,
      model_provider_name |-> result.model_provider_name,
      tags |-> TagAt(tags, i)] :
        i \in 1..Min(Min(inputs_len, Len(result.inference_ids)),
                     IF IsSome(tags) THEN Len(Unwrap(tags)) ELSE 0)}

\* Lines 485-549: izip! stops with its shortest iterator; the tags never end.
BatchModelInferenceRows(inputs_len, result, function_name, variant_name, episode_ids, tags) ==
    {[inference_id |-> result.inference_ids[i],
      batch_id |-> result.batch_id,
      function_name |-> function_name,
      variant_name |-> variant_name,
      episode_id |-> episode_ids[i],
      model_name |-> result.model_name,
      model_provider_name |-> result.model_provider_name,
      tags |-> TagAt(tags, i)] :
        i \in 1..Min(inputs_len, Len(result.inference_ids))}

\* A faulty NewBatchRequest: the batch is recorded as Completed.
NewBatchRequestCompleted(result, clk) ==
    BatchRequestInsertNew(result.batch_id, result.model_name,
                          result.model_provider_name, "Completed", None, clk)

\* Lines 554-561: the row of the new batch
NewBatchRequest(result, clk) ==
    BatchRequestInsertNew(result.batch_id, result.model_name,
                          result.model_provider_name, "Pending", None, clk)

\* Lines 248-265, 478-552: build the rows and write them to BatchModelInference
SubmitWriteRows ==
    /\ sub.pc = "write"
    /\ \E tags \in Drawn(TagsInputs), written \in BOOLEAN :
        LET rows == BatchModelInferenceRows(sub.n, Unwrap(sub.result), "f",
                                            sub.variant_name, sub.episode_ids, tags)
            s == [sub EXCEPT !.tags = tags,
                             !.writes = Append(@, [table |-> "BatchModelInference",
                                                   ok |-> written]),
                             !.mismatched = IF IsSome(tags) /\ Len(Unwrap(tags)) # sub.n
                                            THEN {"tags"} ELSE {}]
        IN IF written
           THEN /\ bmiRows' = bmiRows \cup rows
                /\ sub' = [s EXCEPT !.pc = "write_request"]
           ELSE /\ bmiRows' = bmiRows
                /\ sub' = Finish(s, Err([kind |-> "ClickHouseWrite",
                                         table |-> "BatchModelInference"]))
    /\ UNCHANGED <<bare, functionVariants, clock, brRows, submits, poll, streamVars, unary, conv>>

\* Lines 554-566, 267-272: write the BatchRequest row and answer
SubmitWriteRequest ==
    /\ sub.pc = "write_request"
    /\ clock' = clock + 1
    /\ \E written \in BOOLEAN :
        LET s == [sub EXCEPT !.writes = Append(@, [table |-> "BatchRequest",
                                                   ok |-> written])]
        IN
        IF written
        THEN /\ brRows' = Append(brRows, NewBatchRequest(Unwrap(sub.result), clock))
             /\ sub' = Finish(s, Ok([batch_id |-> Unwrap(sub.result).batch_id,
                                       inference_ids |-> Unwrap(sub.result).inference_ids,
                                       episode_ids |-> sub.episode_ids]))
        ELSE /\ brRows' = brRows
             /\ sub' = Finish(s, Err([kind |-> "ClickHouseWrite",
                                      table |-> "BatchRequest"]))
    /\ UNCHANGED <<bare, functionVariants, bmiRows, submits, poll, streamVars, unary, conv>>

-----------------------------------------------------------------------------
(* poll_batch_inference_handler *)

\* A faulty validate: a batch_id is accepted whatever the inference_id.
ValidateBatchFirst(batch_id, inference_id) ==
    IF IsSome(batch_id)
    THEN Ok([kind |-> "Batch", id |-> Unwrap(batch_id)])
    ELSE IF IsSome(inference_id)
    THEN Ok([kind |-> "Inference", id |-> Unwrap(inference_id)])
    ELSE Err(InvalidRequestMsg(
             "Exactly one of batch_id or inference_id must be provided"))

\* PollInferenceQueryParams::validate
Validate(batch_id, inference_id) ==
    IF IsSome(batch_id) /\ ~IsSome(inference_id)
    THEN Ok([kind |-> "Batch", id |-> Unwrap(batch_id)])
    ELSE IF ~IsSome(batch_id) /\ IsSome(inference_id)
    THEN Ok([kind |-> "Inference", id |-> Unwrap(inference_id)])
    ELSE Err(InvalidRequestMsg(
             "Exactly one of batch_id or inference_id must be provided"))

\* get_batch_request, after run_query has answered: the rows it may return
GetBatchRequest(query, br, bmi) ==
    LET batch_ids == IF query.kind = "Batch"
                     THEN {query.id}
                     ELSE {bi.batch_id : bi \in
                              {x \in BatchIdByInferenceId(bmi) :
                                  x.inference_id = query.id}}
        latest == LatestRows(br, batch_ids)
    IN IF latest = {}
       THEN {Err([kind |-> "BatchNotFound", id |-> query.id])}
       ELSE {Ok(br[k]) : k \in latest}

\* Lines 305-309: every arm of the match on the status is `todo!()`
PollRespond(batch_request) ==
    [kind |-> "Panic", message |-> "not yet implemented",
     status |-> batch_request.status]

\* The ids a caller can ask about: those of the store, and one it does not hold
PollBatchIds ==
    {brRows[k].batch_id : k \in 1..Len(brRows)}
        \cup {r.batch_id : r \in bmiRows} \cup {UnknownId}
PollInferenceIds == {r.inference_id : r \in bmiRows} \cup {UnknownId}

\* poll_batch_inference_handler; it awaits the store once, in run_query.
\* queries: the queries it sent; after: what the submit had answered by then;
\* batch_request: the row get_batch_request returned.
\* poll keeps the poll taken since the current submit began. A poll reads
\* the store and changes nothing, so a second poll is the first one over
\* again, and one is taken where the store may differ: before a submit,
\* between its two writes and after it.
PollBatchInference ==
    /\ sub.pc \in {"idle", "write_request", "done"}
    /\ poll = None
    /\ \E batch_id \in {None} \cup {Some(i) : i \in PollBatchIds},
          inference_id \in {None} \cup {Some(i) : i \in PollInferenceIds},
          answered \in BOOLEAN :
        LET query == Validate(batch_id, inference_id)
            p == [batch_id |-> batch_id, inference_id |-> inference_id,
                  queries |-> <<>>, after |-> sub.response,
                  batch_request |-> None, outcome |-> None]
        IN IF ~query.ok
           THEN /\ answered
                /\ poll' = Some([p EXCEPT !.outcome = query])
           ELSE IF ~answered
           THEN poll' = Some([p EXCEPT !.queries = <<query.val>>,
                                       !.outcome = Err([kind |-> "ClickHouseQuery"])])
           ELSE \E r \in GetBatchRequest(query.val, brRows, bmiRows) :
                   poll' = Some([p EXCEPT !.queries = <<query.val>>,
                                          !.batch_request =
                                              IF r.ok THEN Some(r.val) ELSE None,
                                          !.outcome = IF r.ok
                                                      THEN Err(PollRespond(r.val))
                                                      ELSE r])
    /\ UNCHANGED <<bare, functionVariants, clock, bmiRows, brRows, submits, sub, streamVars, unary, conv>>

-----------------------------------------------------------------------------
(* GCP Vertex Gemini: infer_stream and stream_gcp_vertex_gemini *)

GCPVertexServer(message) == [kind |-> "GCPVertexServer", message |-> message]

\* What the event source delivers: Event::Open, Event::Message with a body
\* that holds a candidate, holds none or cannot be decoded, a transport error,
\* and reqwest_eventsource::Error::StreamEnded.
EventKinds == {"Open", "Chunk", "NoCandidates", "Garbage", "Error", "StreamEnded"}
EventSeqs == VecsUpTo(EventKinds, MaxEvents)

\* serde_json::from_str::<GCPVertexGeminiResponse>(&message.data)
ParseBody(data) ==
    IF data = "Garbage"
    THEN Err(GCPVertexServer("Error parsing response"))
    ELSE Ok([candidates |-> IF data = "Chunk" THEN 1 ELSE 0, data |-> data])

\* impl TryFrom<GCPVertexGeminiStreamResponseWithMetadata>
\*   for ModelInferenceResponseChunk
ChunkTryFrom(body, inference_id) ==
    IF body.candidates = 0
    THEN Err(GCPVertexServer("GCP Vertex Gemini response has no candidates"))
    ELSE Ok([inference_id |-> inference_id, raw |-> body.data])

\* Line 222: the id is minted when the generator starts, and kept
StreamInferenceId(g, clk) == IF g.pc = "created" THEN clk ELSE g.inference_id

\* A faulty ChunkInferenceId: every message gets an id of its own.
ChunkInferenceIdPerMessage(g, id) == id + Len(g.yielded)

\* Line 249: the id a chunk is given
ChunkInferenceId(g, id) == id

\* Lines 221-256: the generator, resumed, handles one event of the source.
\* item: what it yields, if it yields; gen.yielded: all it has yielded.
GenStep(g, events, clk) ==
    LET id == StreamInferenceId(g, clk)
        running == [g EXCEPT !.pc = "looping", !.inference_id = id]
        Yield(item) == [gen |-> [running EXCEPT !.yielded = Append(@, item)],
                        rest |-> Tail(events), item |-> Some(item)]
    IN IF events = <<>> \/ Head(events) = "StreamEnded"
       THEN [gen |-> [running EXCEPT !.pc = "ended"],
             rest |-> IF events = <<>> THEN <<>> ELSE Tail(events),
             item |-> None]
       ELSE IF Head(events) = "Error"
       THEN Yield(Err(GCPVertexServer("transport")))
       ELSE IF Head(events) = "Open"
       THEN [gen |-> running, rest |-> Tail(events), item |-> None]
       ELSE LET data == ParseBody(Head(events))
            IN IF ~data.ok
               THEN Yield(data)
               ELSE Yield(ChunkTryFrom(data.val, ChunkInferenceId(g, id)))

\* One step of a provider call, with whether it went well
Step(name, ok) == [step |-> name, ok |-> ok]

CallIdle ==
    [pc |-> "idle", posts |-> 0, result |-> None, stream |-> FALSE, items |-> <<>>,
     steps |-> <<>>]

\* A faulty InferStreamReturn: an error in first place is passed over and the
\* stream is handed to the caller.
InferStreamReturnLenient(first) ==
    IF IsSome(first)
    THEN IF Unwrap(first).ok
         THEN Ok(Unwrap(first).val)
         ELSE Ok([inference_id |-> 0, raw |-> ""])
    ELSE Err(GCPVertexServer("Stream ended before first chunk"))

\* Lines 204-213: what infer_stream returns once stream.next() has answered;
\* first: None when the stream ended, else the item.
InferStreamReturn(first) ==
    IF IsSome(first)
    THEN IF Unwrap(first).ok
         THEN Ok(Unwrap(first).val)
         ELSE Unwrap(first)
    ELSE Err(GCPVertexServer("Stream ended before first chunk"))

\* A faulty InferStreamStart: the request is translated before the
\* credentials are looked for.
InferStreamStartTranslateFirst(credentials, body, token, sent) ==
    IF ~body
    THEN [steps |-> <<Step("try_into", FALSE)>>,
          result |-> Err([kind |-> "InvalidMessage"])]
    ELSE IF ~credentials
    THEN [steps |-> <<Step("try_into", TRUE), Step("credentials", FALSE)>>,
          result |-> Err([kind |-> "ApiKeyMissing",
                          provider_name |-> "GCP Vertex Gemini"])]
    ELSE IF ~token
    THEN [steps |-> <<Step("try_into", TRUE), Step("credentials", TRUE),
                      Step("get_jwt_token", FALSE)>>,
          result |-> Err([kind |-> "GCPCredentials"])]
    ELSE [steps |-> <<Step("try_into", TRUE), Step("credentials", TRUE),
                      Step("get_jwt_token", TRUE), Step("post", sent)>>,
          result |-> IF sent THEN Ok(TRUE) ELSE Err([kind |-> "InferenceClient"])]

\* Lines 189-202: the credentials, the request body, the token and the
\* event source, each `?` returning its error at once. The event source is
\* made by the builder of the POST; no request is on the wire when making it
\* fails.
InferStreamStart(credentials, body, token, sent) ==
    IF ~credentials
    THEN [steps |-> <<Step("credentials", FALSE)>>,
          result |-> Err([kind |-> "ApiKeyMissing",
                          provider_name |-> "GCP Vertex Gemini"])]
    ELSE IF ~body
    THEN [steps |-> <<Step("credentials", TRUE), Step("try_into", FALSE)>>,
          result |-> Err([kind |-> "InvalidMessage"])]
    ELSE IF ~token
    THEN [steps |-> <<Step("credentials", TRUE), Step("try_into", TRUE),
                      Step("get_jwt_token", FALSE)>>,
          result |-> Err([kind |-> "GCPCredentials"])]
    ELSE [steps |-> <<Step("credentials", TRUE), Step("try_into", TRUE),
                      Step("get_jwt_token", TRUE), Step("post", sent)>>,
          result |-> IF sent THEN Ok(TRUE) ELSE Err([kind |-> "InferenceClient"])]

\* Lines 184-203: credentials, request body, token, the POST and the stream.
\* The events the upstream will deliver are drawn here.
InferStreamBegin ==
    /\ call.pc = "idle"
    /\ \E credentials \in BOOLEAN, body \in BOOLEAN, token \in BOOLEAN,
          sent \in BOOLEAN, events \in EventSeqs :
        LET start == InferStreamStart(credentials, body, token, sent)
        IN IF ~start.result.ok
           THEN /\ events = <<>>
                /\ call' = [call EXCEPT !.pc = "returned",
                                        !.steps = start.steps,
                                        !.result = Some(start.result)]
                /\ UNCHANGED <<upstream, gen>>
           ELSE /\ call' = [call EXCEPT !.pc = "first", !.posts = 1,
                                        !.steps = start.steps]
                /\ upstream' = events
                /\ gen' = [pc |-> "created", inference_id |-> 0, yielded |-> <<>>]
    /\ UNCHANGED <<clock, batchVars, unary, conv>>

\* Lines 204-214: infer_stream awaits the first item of the stream
InferStreamFirst ==
    /\ call.pc = "first"
    /\ LET step == GenStep(gen, upstream, clock)
           done == IsSome(step.item) \/ step.gen.pc = "ended"
           result == InferStreamReturn(step.item)
       IN /\ upstream' = step.rest
          /\ clock' = IF gen.pc = "created" THEN clock + 1 ELSE clock
          /\ gen' = IF done /\ ~result.ok
                    THEN [step.gen EXCEPT !.pc = "dropped"]
                    ELSE step.gen
          /\ call' = IF ~done THEN call
                     ELSE [call EXCEPT !.pc = IF result.ok THEN "streaming"
                                                            ELSE "returned",
                                       !.result = Some(result),
                                       !.stream = result.ok]
    /\ UNCHANGED <<batchVars, unary, conv>>

\* The caller of infer_stream awaits the next item of the stream it was given
StreamNext ==
    /\ call.pc = "streaming"
    /\ gen.pc = "looping"
    /\ LET step == GenStep(gen, upstream, clock)
       IN /\ upstream' = step.rest
          /\ gen' = step.gen
          /\ call' = [call EXCEPT
                 !.pc = IF step.gen.pc = "ended" THEN "finished" ELSE @,
                 !.items = IF IsSome(step.item)
                           THEN Append(@, Unwrap(step.item)) ELSE @]
    /\ UNCHANGED <<clock, batchVars, unary, conv>>

-----------------------------------------------------------------------------
(* The batch endpoints as a system *)

StreamIdle ==
    /\ upstream = <<>>
    /\ gen = [pc |-> "unborn", inference_id |-> 0, yielded |-> <<>>]
    /\ call = CallIdle

\* No infer call, and no conversion run on its own
UnaryIdle ==
    [pc |-> "idle", request |-> None, request_body |-> None, posts |-> 0,
     response |-> None, result |-> None, steps |-> <<>>]
ConvIdle == [pc |-> "idle"]
ProviderIdle == StreamIdle /\ unary = UnaryIdle /\ conv = ConvIdle

BatchInit ==
    /\ functionVariants \in SUBSET VariantNames
    /\ clock = FirstMinted
    /\ brRows \in InitialHistories
    /\ bmiRows = IF brRows = <<>> THEN {} ELSE OldInferenceRows
    /\ submits = 0
    /\ sub = SubIdle
    /\ poll = None
    /\ ProviderIdle

\* Batch submits with every optional array of the request body
Init == bare = FALSE /\ BatchInit

Next ==
    \/ SubmitStart
    \/ SubmitToolsAndSchemas
    \/ SubmitVariants
    \/ SubmitEpisodeIds
    \/ SubmitParams
    \/ SubmitVariantAttempt
    \/ SubmitAllVariantsFailed
    \/ SubmitWriteRows
    \/ SubmitWriteRequest

Spec == Init /\ [][Next]_vars

\* Polls running beside submits that carry no optional array
PollInit == bare = TRUE /\ BatchInit

PollNext ==
    \/ SubmitStart
    \/ SubmitToolsAndSchemas
    \/ SubmitVariants
    \/ SubmitEpisodeIds
    \/ SubmitParams
    \/ SubmitVariantAttempt
    \/ SubmitAllVariantsFailed
    \/ SubmitWriteRows
    \/ SubmitWriteRequest
    \/ PollBatchInference

PollSpec == PollInit /\ [][PollNext]_vars

\* One streaming inference of the GCP Vertex Gemini provider
StreamInit ==
    /\ bare = TRUE
    /\ functionVariants = {}
    /\ clock = FirstMinted
    /\ brRows = <<>>
    /\ bmiRows = {}
    /\ submits = 0
    /\ sub = SubIdle
    /\ poll = None
    /\ ProviderIdle

StreamNextStep ==
    \/ InferStreamBegin
    \/ InferStreamFirst
    \/ StreamNext

StreamSpec == StreamInit /\ [][StreamNextStep]_vars

-----------------------------------------------------------------------------
(* GCP Vertex Gemini: the request body *)

MaxMessages == 3

ToolCallInput == [name |-> "f", arguments |-> "x"]

\* InferenceRequestMessage: one record for the four variants, the fields a
\* variant lacks being None
SystemMessage(content) ==
    [role |-> "System", content |-> Some(content), tool_calls |-> None,
     tool_call_id |-> None]
UserMessage(content) ==
    [role |-> "User", content |-> Some(content), tool_calls |-> None,
     tool_call_id |-> None]
AssistantMessage(content, tool_calls) ==
    [role |-> "Assistant", content |-> content, tool_calls |-> tool_calls,
     tool_call_id |-> None]
ToolMessage(tool_call_id, content) ==
    [role |-> "Tool", content |-> Some(content), tool_calls |-> None,
     tool_call_id |-> Some(tool_call_id)]

MessageInputs ==
    {SystemMessage("a"), SystemMessage("b"), UserMessage("a"), UserMessage("b"),
     AssistantMessage(Some("a"), None),
     AssistantMessage(None, Some(<<ToolCallInput>>)),
     AssistantMessage(Some("b"), Some(<<ToolCallInput, ToolCallInput>>)),
     ToolMessage("id", "r")}

\* ModelInferenceRequest; the requests drawn carry no tools
RequestInputs ==
    [messages : VecsUpTo(MessageInputs, MaxMessages),
     tools_available : {None}, tool_choice : {None},
     temperature : {None}, max_tokens : {Some(100)},
     json_mode : BOOLEAN, output_schema : {None, Some("schema")}]

\* GCPVertexGeminiContentPart
TextPart(text) == [text |-> text]
FunctionCallPart(name, args) == [function_call |-> [name |-> name, args |-> args]]

InvalidMessage ==
    [kind |-> "InvalidMessage",
     message |-> "Can't convert System message to GCP Vertex Gemini message. Don't pass System message in except as the first message in the chat."]

\* A faulty ContentTryFrom: a System message becomes a Model content.
ContentTryFromAnyRole(message) ==
    IF message.role \in {"User", "System"}
    THEN Ok([role |-> IF message.role = "User" THEN "user" ELSE "model",
             parts |-> <<TextPart(Unwrap(message.content))>>])
    ELSE IF message.role = "Assistant"
    THEN Ok([role |-> "model",
             parts |->
                (IF IsSome(message.content)
                 THEN <<TextPart(Unwrap(message.content))>> ELSE <<>>) \o
                (IF IsSome(message.tool_calls)
                 THEN [k \in 1..Len(Unwrap(message.tool_calls)) |->
                          FunctionCallPart(Unwrap(message.tool_calls)[k].name,
                                           Unwrap(message.tool_calls)[k].arguments)]
                 ELSE <<>>)])
    ELSE Ok([role |-> "user",
             parts |-> <<FunctionCallPart(Unwrap(message.tool_call_id),
                                          Unwrap(message.content))>>])

\* impl TryFrom<&InferenceRequestMessage> for GCPVertexGeminiContent
ContentTryFrom(message) ==
    IF message.role = "User"
    THEN Ok([role |-> "user", parts |-> <<TextPart(Unwrap(message.content))>>])
    ELSE IF message.role = "Assistant"
    THEN Ok([role |-> "model",
             parts |->
                (IF IsSome(message.content)
                 THEN <<TextPart(Unwrap(message.content))>> ELSE <<>>) \o
                (IF IsSome(message.tool_calls)
                 THEN [k \in 1..Len(Unwrap(message.tool_calls)) |->
                          FunctionCallPart(Unwrap(message.tool_calls)[k].name,
                                           Unwrap(message.tool_calls)[k].arguments)]
                 ELSE <<>>)])
    ELSE IF message.role = "System"
    THEN Err(InvalidMessage)
    ELSE Ok([role |-> "user",
             parts |-> <<FunctionCallPart(Unwrap(message.tool_call_id),
                                          Unwrap(message.content))>>])

\* Lines 470-482: the system instruction and the messages left to translate
SystemInstruction(messages) ==
    IF messages[1].role = "System"
    THEN Some([role |-> "model",
               parts |-> <<TextPart(Unwrap(messages[1].content))>>])
    ELSE None

\* A faulty RequestMessages: the messages left come out last first.
RequestMessagesReversed(messages) ==
    LET rest == IF messages[1].role = "System" THEN Tail(messages) ELSE messages
    IN [k \in 1..Len(rest) |-> rest[Len(rest) + 1 - k]]

RequestMessages(messages) ==
    IF messages[1].role = "System" THEN Tail(messages) ELSE messages

\* Lines 483-486: .map(try_from).collect::<Result<Vec<_>, _>>(), which stops
\* at the first error
CollectContents(request_messages) ==
    LET rs == [k \in 1..Len(request_messages) |-> ContentTryFrom(request_messages[k])]
        bad == {k \in 1..Len(rs) : ~rs[k].ok}
    IN IF bad = {}
       THEN Ok([k \in 1..Len(rs) |-> rs[k].val])
       ELSE rs[CHOOSE k \in bad : \A j \in bad : k <= j]

\* Lines 495-508: the generation config
GenerationConfig(request) ==
    [stop_sequences |-> None,
     temperature |-> request.temperature,
     max_output_tokens |-> request.max_tokens,
     response_mime_type |-> IF IsSome(request.output_schema)
                            THEN Some("application/json") ELSE None,
     response_schema |-> request.output_schema]

\* impl TryFrom<&ModelInferenceRequest> for GCPVertexGeminiRequest
RequestTryFrom(request) ==
    IF request.messages = <<>>
    THEN Err(InvalidRequestMsg("GCP Vertex Gemini requires at least one message"))
    ELSE LET contents == CollectContents(RequestMessages(request.messages))
         IN IF ~contents.ok
            THEN contents
            ELSE Ok([contents |-> contents.val,
                     tools |-> IF IsSome(request.tools_available)
                               THEN Some(<<Unwrap(request.tools_available)>>)
                               ELSE None,
                     tool_config |-> request.tool_choice,
                     generation_config |-> Some(GenerationConfig(request)),
                     system_instruction |-> SystemInstruction(request.messages)])

-----------------------------------------------------------------------------
(* GCP Vertex Gemini: the response body and infer *)

MaxParts == 3

\* A text is a sequence of characters; format!("{}\n{}", a, b) is a, a
\* newline, b.
Newline == "\n"
TextInputs == {<<>>, <<"a">>, <<"b">>}

\* GCPVertexGeminiResponseContentPart
PartInputs ==
    {TextPart(t) : t \in TextInputs} \cup
    {FunctionCallPart("f", "x"), FunctionCallPart("g", "y")}

\* GCPVertexGeminiResponseCandidate
CandidateInputs ==
    {[content |-> None]} \cup
    {[content |-> Some([parts |-> ps])] : ps \in VecsUpTo(PartInputs, MaxParts)}
OtherCandidate == [content |-> Some([parts |-> <<TextPart(<<"z">>)>>])]

UsageMetadataInputs ==
    {None, Some([prompt_token_count |-> 1, candidates_token_count |-> 2])}

\* What the provider sends as the body of its response: a body that cannot
\* be read, a text that is no GCPVertexGeminiResponse, or JSON with the
\* fields of GCPVertexGeminiResponse and, in extra, fields the struct lacks.
WireBodies ==
    {[kind |-> "unreadable"], [kind |-> "text", text |-> "oops"]} \cup
    [kind : {"json"},
     candidates : {<<>>} \cup {<<c>> : c \in CandidateInputs}
                         \cup {<<c, OtherCandidate>> : c \in CandidateInputs},
     usage_metadata : UsageMetadataInputs,
     extra : {{}, {"finishReason"}}]

StatusCodes == {200, 201, 302, 400, 401, 403, 404, 413, 429, 500, 529}
IsSuccess(status) == status >= 200 /\ status <= 299

\* res.json::<GCPVertexGeminiResponse>(): serde keeps the fields of the
\* struct and skips the others
ParseResponse(body) ==
    IF body.kind = "json"
    THEN Ok([candidates |-> body.candidates, usage_metadata |-> body.usage_metadata])
    ELSE Err(GCPVertexServer("Error parsing response"))

\* res.text()
ReadText(body) ==
    IF body.kind = "unreadable"
    THEN Err(GCPVertexServer("Error parsing response"))
    ELSE Ok(body)

\* serde_json::to_string(&body) of a GCPVertexGeminiResponse
ToJsonString(body) ==
    [kind |-> "json", candidates |-> body.candidates,
     usage_metadata |-> body.usage_metadata, extra |-> {}]

\* impl From<GCPVertexGeminiUsageMetadata> for Usage
UsageFrom(usage_metadata) ==
    [prompt_tokens |-> usage_metadata.prompt_token_count,
     completion_tokens |-> usage_metadata.candidates_token_count]

\* A faulty PushText: the texts are put end to end.
PushTextBare(message_text, text) ==
    IF IsSome(message_text) THEN Some(Unwrap(message_text) \o text) ELSE Some(text)

\* Lines 605-608: a text part met by the loop over the parts
PushText(message_text, text) ==
    IF IsSome(message_text)
    THEN Some(Unwrap(message_text) \o <<Newline>> \o text)
    ELSE Some(text)

\* Lines 609-620: a function-call part met by the loop over the parts
PushToolCall(tool_calls, function_call) ==
    LET tool_call == [name |-> function_call.name,
                      arguments |-> function_call.args,
                      id |-> function_call.name]
    IN IF IsSome(tool_calls)
       THEN Some(Append(Unwrap(tool_calls), tool_call))
       ELSE Some(<<tool_call>>)

\* Lines 603-622: the loop over the parts, from the values it has so far
RECURSIVE CollectParts(_, _, _)
CollectParts(parts, message_text, tool_calls) ==
    IF parts = <<>>
    THEN [message_text |-> message_text, tool_calls |-> tool_calls]
    ELSE IF "text" \in DOMAIN Head(parts)
    THEN CollectParts(Tail(parts), PushText(message_text, Head(parts).text),
                      tool_calls)
    ELSE CollectParts(Tail(parts), message_text,
                      PushToolCall(tool_calls, Head(parts).function_call))

\* A faulty UsageOf: a body without usage metadata counts no tokens.
UsageOfOrZero(body) ==
    IF IsSome(body.usage_metadata)
    THEN Ok(UsageFrom(Unwrap(body.usage_metadata)))
    ELSE Ok([prompt_tokens |-> 0, completion_tokens |-> 0])

\* Lines 624-630: the usage of a unary response
UsageOf(body) ==
    IF IsSome(body.usage_metadata)
    THEN Ok(UsageFrom(Unwrap(body.usage_metadata)))
    ELSE Err(GCPVertexServer(
             "GCP Vertex Gemini non-streaming response has no usage metadata"))

\* impl TryFrom<GCPVertexGeminiResponseWithLatency> for ModelInferenceResponse
ResponseTryFrom(body) ==
    LET raw == ToJsonString(body)
    IN IF body.candidates = <<>>
       THEN Err(GCPVertexServer("GCP Vertex Gemini response has no candidates"))
       ELSE IF ~IsSome(Head(body.candidates).content)
       THEN Err(GCPVertexServer("GCP Vertex Gemini response has no content"))
       ELSE LET c == CollectParts(Unwrap(Head(body.candidates).content).parts,
                                  None, None)
                usage == UsageOf(body)
            IN IF ~usage.ok
               THEN usage
               ELSE Ok([content |-> c.message_text, tool_calls |-> c.tool_calls,
                        raw |-> raw, usage |-> usage.val])

ClientStatusCodes == {401, 400, 413, 429}

\* A faulty handle_gcp_vertex_gemini_error: 429 counts as the provider's.
HandleGcpVertexGeminiErrorNoThrottle(response_code, response_body) ==
    IF response_code \in ClientStatusCodes \ {429}
    THEN Err([kind |-> "GCPVertexClient", message |-> response_body,
              status_code |-> response_code])
    ELSE Err(GCPVertexServer(response_body))

\* handle_gcp_vertex_gemini_error
HandleGcpVertexGeminiError(response_code, response_body) ==
    IF response_code \in ClientStatusCodes
    THEN Err([kind |-> "GCPVertexClient", message |-> response_body,
              status_code |-> response_code])
    ELSE Err(GCPVertexServer(response_body))

\* Lines 166-180: what infer makes of the response
InferResult(response) ==
    IF IsSuccess(response.status)
    THEN LET body == ParseResponse(response.body)
         IN IF body.ok THEN ResponseTryFrom(body.val) ELSE body
    ELSE LET error_body == ReadText(response.body)
         IN IF error_body.ok
            THEN HandleGcpVertexGeminiError(response.status, error_body.val)
            ELSE error_body

\* Lines 148-151: the credentials and the request body. The request is
\* first read by its translation.
InferBegin ==
    /\ unary.pc = "idle"
    /\ \E credentials \in BOOLEAN :
        IF ~credentials
        THEN unary' = [unary EXCEPT
                         !.pc = "returned",
                         !.steps = <<Step("credentials", FALSE)>>,
                         !.result = Some(Err([kind |-> "ApiKeyMissing",
                                              provider_name |-> "GCP Vertex Gemini"]))]
        ELSE \E request \in RequestInputs :
            LET request_body == RequestTryFrom(request)
                asked == [unary EXCEPT
                             !.request = Some(request),
                             !.steps = <<Step("credentials", TRUE),
                                         Step("try_into", request_body.ok)>>]
            IN unary' =
                 IF ~request_body.ok
                 THEN [asked EXCEPT !.pc = "returned", !.result = Some(request_body)]
                 ELSE [asked EXCEPT !.pc = "translated",
                                    !.request_body = Some(request_body.val)]
    /\ UNCHANGED <<clock, batchVars, streamVars, conv>>

\* Lines 152-162: the token and the POST. posts counts the requests handed
\* to the HTTP client; the request and its body are not read again and are
\* let go.
InferSend ==
    /\ unary.pc = "translated"
    /\ \E token \in BOOLEAN, sent \in BOOLEAN :
        unary' =
          IF ~token
          THEN [unary EXCEPT !.pc = "returned",
                             !.steps = Append(@, Step("get_jwt_token", FALSE)),
                             !.result = Some(Err([kind |-> "GCPCredentials"]))]
          ELSE IF ~sent
          THEN [unary EXCEPT !.pc = "returned", !.posts = 1,
                             !.steps = @ \o <<Step("get_jwt_token", TRUE),
                                              Step("post", FALSE)>>,
                             !.result = Some(Err([kind |-> "InferenceClient"]))]
          ELSE [unary EXCEPT !.pc = "sent", !.posts = 1,
                             !.steps = @ \o <<Step("get_jwt_token", TRUE),
                                              Step("post", TRUE)>>,
                             !.request = None, !.request_body = None]
    /\ UNCHANGED <<clock, batchVars, streamVars, conv>>

\* Lines 163-181: the response arrives
InferRespond ==
    /\ unary.pc = "sent"
    /\ \E status \in StatusCodes, body \in WireBodies :
        LET response == [status |-> status, body |-> body]
        IN unary' = [unary EXCEPT !.pc = "returned",
                                  !.response = Some(response),
                                  !.result = Some(InferResult(response))]
    /\ UNCHANGED <<clock, batchVars, streamVars, conv>>

\* One unary inference of the GCP Vertex Gemini provider
UnaryNext ==
    \/ InferBegin
    \/ InferSend
    \/ InferRespond

UnarySpec == StreamInit /\ [][UnaryNext]_vars

\* Both entry points of one provider, called in turn: infer_stream is called
\* in place of infer, or after an infer call that never read its request.
ProviderNext ==
    \/ call.pc = "idle" /\ UnaryNext
    \/ unary.request = None /\ unary.posts = 0 /\ StreamNextStep

ProviderSpec == StreamInit /\ [][ProviderNext]_vars

-----------------------------------------------------------------------------
(* The conversion of the episode ids, run on its own *)

\* Option<Vec<Option<Uuid>>> with two ids a caller may supply beside the
\* early one
EpisodeIdVectors ==
    {None} \cup
    {Some(v) : v \in VecsUpTo({None, Some(EarlyId), Some(ClientId),
                               Some(ClientId + 1)}, MaxN + 1)}

EpisodeInit ==
    /\ bare = TRUE
    /\ functionVariants = {}
    /\ clock = FirstMinted
    /\ brRows = <<>>
    /\ bmiRows = {}
    /\ submits = 0
    /\ sub = SubIdle
    /\ poll = None
    /\ StreamIdle
    /\ unary = UnaryIdle
    /\ conv \in [pc : {"input"}, episode_ids : EpisodeIdVectors,
                 num_inferences : 1..MaxN, result : {None}]

\* BatchEpisodeIds::try_from(BatchEpisodeIdsWithSize(episode_ids, n))
EpisodeIdsConvert ==
    /\ conv.pc = "input"
    /\ LET r == BatchEpisodeIdsTryFrom(conv.episode_ids, conv.num_inferences, clock)
       IN /\ conv' = [conv EXCEPT !.pc = "done", !.result = Some(r)]
          /\ clock' = IF r.ok THEN clock + r.minted ELSE clock
    /\ UNCHANGED <<batchVars, streamVars, unary>>

EpisodeSpec == EpisodeInit /\ [][EpisodeIdsConvert]_vars

-----------------------------------------------------------------------------
(* The conversion of the inference params, run on its own *)

\* Option<Vec<Option<T>>>, and BatchChatCompletionInferenceParams with at
\* most two of the six arrays provided
ParamValueVecs ==
    {None} \cup {Some(v) : v \in VecsUpTo({None, Some(1)}, MaxN + 1)}
ParamValueInputs ==
    {[f \in ParamFieldSet |->
        IF f = f1 THEN a1 ELSE IF f = f2 THEN a2 ELSE None] :
        f1 \in ParamFieldSet, f2 \in ParamFieldSet, a1 \in ParamValueVecs,
        a2 \in ParamValueVecs}

ParamsInit ==
    /\ bare = TRUE
    /\ functionVariants = {}
    /\ clock = FirstMinted
    /\ brRows = <<>>
    /\ bmiRows = {}
    /\ submits = 0
    /\ sub = SubIdle
    /\ poll = None
    /\ StreamIdle
    /\ unary = UnaryIdle
    /\ conv \in [pc : {"input"}, params : ParamValueInputs,
                 num_inferences : 1..MaxN, result : {None}]

\* Vec::<InferenceParams>::try_from(BatchInferenceParamsWithSize(params, n))
ParamsConvert ==
    /\ conv.pc = "input"
    /\ conv' = [conv EXCEPT
           !.pc = "done",
           !.result = Some(BatchInferenceParamsTryFrom(
                               [chat_completion |-> conv.params],
                               conv.num_inferences))]
    /\ UNCHANGED <<clock, batchVars, streamVars, unary>>

ParamsSpec == ParamsInit /\ [][ParamsConvert]_vars

-----------------------------------------------------------------------------
(* Properties of the batch submit *)

Response == Unwrap(sub.response)
Returned == sub.pc = "done"
Succeeded == Returned /\ Response.ok
Failed(i) == sub.attempts[i].outcome # "Ok"

\* C1: when the submit has returned, no write to the store having failed, and
\* an optional array it read (one of output_schemas, episode_ids, tags and
\* the six inference params) had a length other than the number of inputs,
\* the answer is InvalidRequest naming one such array with its length and the
\* number of inputs, and no variant was asked to start a batch.
C1_MismatchedArrayRejected ==
    (/\ Returned
     /\ sub.mismatched # {}
     /\ \A i \in 1..Len(sub.writes) : sub.writes[i].ok) =>
        /\ ~Response.ok
        /\ Response.err.kind = "InvalidRequest"
        /\ Response.err.field \in sub.mismatched
        /\ Response.err.expected = sub.n
        /\ Response.err.actual # sub.n
        /\ sub.attempts = <<>>

RowsOfBatch(b) == {r \in bmiRows : r.batch_id = b}
RequestsOfBatch(b) == {k \in 1..Len(brRows) : brRows[k].batch_id = b}

\* C2: when the submit has returned success for n inputs, the store holds n
\* BatchModelInference rows of the returned batch, one per returned
\* inference id, and one BatchRequest row of it, Pending and without errors,
\* both writes having succeeded; and a submit one of whose writes failed has
\* returned an error.
C2_SuccessAfterBothWrites ==
    /\ Succeeded =>
        /\ Cardinality(RowsOfBatch(Response.val.batch_id)) = sub.n
        /\ Len(Response.val.inference_ids) = sub.n
        /\ {r.inference_id : r \in RowsOfBatch(Response.val.batch_id)}
              = {Response.val.inference_ids[i] : i \in 1..sub.n}
        /\ Cardinality(RequestsOfBatch(Response.val.batch_id)) = 1
        /\ \A k \in RequestsOfBatch(Response.val.batch_id) :
              brRows[k].status = "Pending" /\ DOMAIN brRows[k].errors = {}
        /\ sub.writes = <<[table |-> "BatchModelInference", ok |-> TRUE],
                          [table |-> "BatchRequest", ok |-> TRUE]>>
    /\ (Returned /\ \E i \in 1..Len(sub.writes) : ~sub.writes[i].ok) =>
        ~Response.ok

C2_Witness == Succeeded /\ sub.n = MaxN /\ Len(brRows) > 1

\* C3: the variants tried are distinct candidates, tried one at a time, only
\* the last of them can have succeeded, every iteration of the loop takes one
\* candidate away (so the loop ends), and when all of them failed the answer
\* is AllVariantsFailed with exactly one entry per candidate, that variant's
\* error.
C3_VariantLoop ==
    /\ \A i, j \in 1..Len(sub.attempts) :
          sub.attempts[i].variant = sub.attempts[j].variant => i = j
    /\ {sub.attempts[i].variant : i \in 1..Len(sub.attempts)}
          = sub.initial \ sub.candidates
    /\ sub.candidates \subseteq sub.initial
    /\ Len(sub.attempts) + Cardinality(sub.candidates) = Cardinality(sub.initial)
    /\ \A i \in 1..Len(sub.attempts) : ~Failed(i) => i = Len(sub.attempts)
    /\ sub.pc = "loop" =>
          /\ \A i \in 1..Len(sub.attempts) : Failed(i)
          /\ ENABLED (SubmitVariantAttempt \/ SubmitAllVariantsFailed)
    /\ (Returned /\ sub.initial # {} /\ sub.candidates = {}
          /\ \A i \in 1..Len(sub.attempts) : Failed(i)) =>
          /\ ~Response.ok
          /\ Response.err.kind = "AllVariantsFailed"
          /\ DOMAIN Response.err.errors = sub.initial
          /\ \A i \in 1..Len(sub.attempts) :
                Response.err.errors[sub.attempts[i].variant]
                    = [kind |-> sub.attempts[i].outcome,
                       variant |-> sub.attempts[i].variant]

C3_Witness ==
    /\ Returned
    /\ ~Response.ok
    /\ Response.err.kind = "AllVariantsFailed"
    /\ Cardinality(sub.initial) = 2
    /\ Len(sub.attempts) = 2

\* C4: a variant that returned ClientError is the last one tried, its error
\* is not recorded among the variant errors, and the submit has returned
\* with that error.
C4_ClientErrorShortCircuits ==
    \A i \in 1..Len(sub.attempts) :
        sub.attempts[i].outcome = "ClientError" =>
            /\ i = Len(sub.attempts)
            /\ sub.attempts[i].variant \notin DOMAIN sub.variant_errors
            /\ Returned
            /\ Response = Err([kind |-> "ClientError",
                               variant |-> sub.attempts[i].variant])

-----------------------------------------------------------------------------
(* Properties of the poll *)

Polled == Unwrap(poll)
Terminal == {"Completed", "Failed"}

\* The statuses the latest BatchRequest row of a batch may show
StatusOf(br, b) == {br[k].status : k \in LatestRows(br, {b})}

\* The rows the store holds for what the last poll asked about
PolledRows == GetBatchRequest(Polled.queries[1], brRows, bmiRows)

StoreAnswered == Polled.outcome.ok \/ Polled.outcome.err.kind # "ClickHouseQuery"

\* C5: a poll (by batch_id or by inference_id) that the store answered with a
\* Completed or Failed batch has returned that status.
C5_PollReturnsTerminalStatus ==
    (/\ IsSome(poll)
     /\ Polled.queries # <<>>
     /\ StoreAnswered
     /\ \E r \in PolledRows : r.ok /\ r.val.status \in Terminal) =>
        /\ Polled.outcome.ok
        /\ \E r \in PolledRows : Polled.outcome.val = [status |-> r.val.status]

\* C6: a poll that follows a successful submit and asks for its batch_id, or
\* for one of its inference_ids, has returned the status Pending.
C6_PollAfterSubmitPending ==
    (/\ IsSome(poll)
     /\ IsSome(Polled.after)
     /\ Unwrap(Polled.after).ok
     /\ Polled.queries # <<>>
     /\ StoreAnswered
     /\ \/ Polled.queries[1] =
              [kind |-> "Batch", id |-> Unwrap(Polled.after).val.batch_id]
        \/ \E i \in 1..Len(Unwrap(Polled.after).val.inference_ids) :
              Polled.queries[1] =
                 [kind |-> "Inference",
                  id |-> Unwrap(Polled.after).val.inference_ids[i]]) =>
        Polled.outcome = Ok([status |-> "Pending"])

BatchIdsOf(br) == {br[k].batch_id : k \in 1..Len(br)}

\* C7: in every step, a batch that gets its first BatchRequest row shows
\* Pending, and a batch whose latest row is Completed or Failed shows the
\* same status after the step.
C7_TerminalSticky ==
    [][\A b \in BatchIdsOf(brRows') :
          /\ b \notin BatchIdsOf(brRows) => StatusOf(brRows', b) = {"Pending"}
          /\ (b \in BatchIdsOf(brRows) /\ StatusOf(brRows, b) \subseteq Terminal)
                => StatusOf(brRows', b) = StatusOf(brRows, b)]_vars

C7_Witness ==
    /\ StatusOf(brRows, OldBatch) = {"Completed"}
    /\ Succeeded
    /\ StatusOf(brRows, Response.val.batch_id) = {"Pending"}
    /\ IsSome(poll)
    /\ Polled.queries = <<[kind |-> "Batch", id |-> OldBatch]>>
    /\ IsSome(Polled.after)

\* C8: a poll with both ids or with neither has returned InvalidRequest and
\* sent no query; a poll with one of them has sent one query, for that id
\* and kind.
C8_PollValidation ==
    IsSome(poll) =>
        /\ (IsSome(Polled.batch_id) = IsSome(Polled.inference_id)) =>
              /\ ~Polled.outcome.ok
              /\ Polled.outcome.err.kind = "InvalidRequest"
              /\ Polled.queries = <<>>
        /\ (IsSome(Polled.batch_id) /\ ~IsSome(Polled.inference_id)) =>
              Polled.queries = <<[kind |-> "Batch", id |-> Unwrap(Polled.batch_id)]>>
        /\ (~IsSome(Polled.batch_id) /\ IsSome(Polled.inference_id)) =>
              Polled.queries =
                 <<[kind |-> "Inference", id |-> Unwrap(Polled.inference_id)]>>

C8_Witness ==
    /\ IsSome(poll)
    /\ IsSome(Polled.batch_id)
    /\ IsSome(Polled.inference_id)
    /\ Unwrap(Polled.batch_id) \in BatchIdsOf(brRows)

-----------------------------------------------------------------------------
(* Properties of the GCP Vertex Gemini stream *)

Result == Unwrap(call.result)
StreamCreated == gen.pc # "unborn"

\* C9: infer_stream returns Ok only with the first item the stream yielded,
\* a chunk, and hands over the stream then; when the first item is an error
\* it has returned that error, and when the stream ended without an item it
\* has returned the error "Stream ended before first chunk", in both cases
\* without handing over the stream; nothing is forwarded before it returns.
C9_FirstChunkBeforeReturn ==
    /\ (IsSome(call.result) /\ Result.ok) =>
          /\ Len(gen.yielded) >= 1
          /\ gen.yielded[1] = Ok(Result.val)
          /\ call.stream
    /\ (IsSome(call.result) /\ Len(gen.yielded) >= 1 /\ ~gen.yielded[1].ok) =>
          /\ Result = gen.yielded[1]
          /\ ~call.stream
          /\ call.items = <<>>
          /\ Len(gen.yielded) = 1
    /\ (IsSome(call.result) /\ StreamCreated /\ gen.yielded = <<>>) =>
          /\ Result = Err(GCPVertexServer("Stream ended before first chunk"))
          /\ ~call.stream
    /\ ~IsSome(call.result) =>
          /\ ~call.stream
          /\ gen.yielded = <<>>
          /\ call.items = <<>>
    /\ call.items # <<>> => call.stream

C9_Witness ==
    /\ IsSome(call.result)
    /\ Len(gen.yielded) = 1
    /\ ~gen.yielded[1].ok
    /\ upstream # <<>>

ChunksOf(items) == {items[i].val : i \in {j \in 1..Len(items) : items[j].ok}}

\* C10: the stream mints one id, when it starts, and the first chunk and all
\* later chunks carry it, those that follow an error item too.
C10_OneInferenceId ==
    /\ clock = IF gen.pc \in {"unborn", "created"} THEN FirstMinted
               ELSE FirstMinted + 1
    /\ gen.pc \notin {"unborn", "created"} => gen.inference_id = FirstMinted
    /\ \A c \in ChunksOf(gen.yielded) : c.inference_id = gen.inference_id
    /\ (IsSome(call.result) /\ Result.ok) =>
          Result.val.inference_id = gen.inference_id
    /\ \A c \in ChunksOf(call.items) : c.inference_id = gen.inference_id

C10_Witness ==
    /\ IsSome(call.result)
    /\ Result.ok
    /\ \E i, j \in 1..Len(call.items) :
          i < j /\ ~call.items[i].ok /\ call.items[j].ok

\* The Err items of a transport error and of a body that cannot be decoded
MidFlightErrors ==
    {Err(GCPVertexServer("transport")), Err(GCPVertexServer("Error parsing response"))}

\* C11: an Err item that comes from a transport error or from a body that
\* cannot be decoded is the last item the chunk stream yields.
C11_ErrorIsTerminal ==
    \A i \in 1..Len(gen.yielded) :
        gen.yielded[i] \in MidFlightErrors => i = Len(gen.yielded)

-----------------------------------------------------------------------------
(* Properties of the GCP Vertex Gemini unary call *)

UnaryResult == Unwrap(unary.result)
UnaryResponse == Unwrap(unary.response)
UnaryRequest == Unwrap(unary.request)
RequestBody == Unwrap(unary.request_body)
Responded == unary.pc = "returned" /\ IsSome(unary.response)

\* What a non-success status with a body makes of the call
ErrorOfStatus(status, body) ==
    IF status \in {401, 400, 413, 429}
    THEN Err([kind |-> "GCPVertexClient", message |-> body, status_code |-> status])
    ELSE Err(GCPVertexServer(body))

\* C12 as stated: a response with a non-success status has made the call
\* return the client error with the status and the body for 401, 400, 413
\* and 429, and the server error with the body for the other statuses.
C12_NonSuccessStatus ==
    (Responded /\ ~IsSuccess(UnaryResponse.status)) =>
        /\ ~UnaryResult.ok
        /\ IF UnaryResponse.status \in {401, 400, 413, 429}
           THEN /\ UnaryResult.err.kind = "GCPVertexClient"
                /\ UnaryResult.err.status_code = UnaryResponse.status
           ELSE UnaryResult.err.kind = "GCPVertexServer"
        /\ UnaryResponse.body.kind # "unreadable" =>
              UnaryResult.err.message = UnaryResponse.body

\* C12 amended: a response with a non-success status has made the call
\* return an error; when its body could be read the error is the client
\* error with the status and the body for 401, 400, 413 and 429 and the
\* server error with the body for the other statuses, and when its body
\* could not be read it is the server error "Error parsing response".
C12_NonSuccessStatusReadBody ==
    (Responded /\ ~IsSuccess(UnaryResponse.status)) =>
        /\ ~UnaryResult.ok
        /\ UnaryResult =
              IF UnaryResponse.body.kind # "unreadable"
              THEN ErrorOfStatus(UnaryResponse.status, UnaryResponse.body)
              ELSE Err(GCPVertexServer("Error parsing response"))

C12_Witness ==
    /\ Responded
    /\ UnaryResponse.status = 429
    /\ UnaryResponse.body.kind = "text"
    /\ UnaryResult.err.kind = "GCPVertexClient"

Translated == unary.pc = "translated"
Messages == UnaryRequest.messages
EmbeddedSystem(messages) == \E k \in 2..Len(messages) : messages[k].role = "System"

\* C13: the request body made from a list that begins with a System message
\* has that message's text as its system instruction, and its contents are
\* the translations of the messages after the first, in their order.
C13_LeadingSystem ==
    (Translated /\ Messages[1].role = "System") =>
        /\ IsSome(RequestBody.system_instruction)
        /\ Unwrap(RequestBody.system_instruction).parts =
              <<TextPart(Unwrap(Messages[1].content))>>
        /\ Len(RequestBody.contents) = Len(Messages) - 1
        /\ \A k \in 1..Len(RequestBody.contents) :
              ContentTryFrom(Messages[k + 1]) = Ok(RequestBody.contents[k])

C13_Witness ==
    /\ Translated
    /\ Len(Messages) = MaxMessages
    /\ Messages[1].role = "System"
    /\ Messages[2] # Messages[3]

\* C14: for a list with a System message after the first place, the
\* translation, once the credentials were found, has failed with
\* InvalidMessage: the call has returned that error, made no request body
\* and sent no request.
C14_EmbeddedSystemRejected ==
    (/\ IsSome(unary.request)
     /\ EmbeddedSystem(Messages)
     /\ ~(IsSome(unary.result) /\ UnaryResult.err.kind = "ApiKeyMissing")) =>
        /\ unary.pc = "returned"
        /\ UnaryResult = Err(InvalidMessage)
        /\ unary.request_body = None
        /\ unary.posts = 0

C14_Witness ==
    /\ unary.pc = "returned"
    /\ IsSome(unary.request)
    /\ Len(Messages) >= 2
    /\ Messages[1].role = "System"
    /\ Messages[2].role = "System"
    /\ UnaryResult = Err(InvalidMessage)

\* C15: the request body made from a request with json_mode set, or with an
\* output schema, asks for application/json, and for the output schema when
\* there is one.
C15_JsonModeMimeType ==
    (Translated /\ (UnaryRequest.json_mode \/ IsSome(UnaryRequest.output_schema))) =>
        /\ IsSome(RequestBody.generation_config)
        /\ Unwrap(RequestBody.generation_config).response_mime_type =
              Some("application/json")
        /\ IsSome(UnaryRequest.output_schema) =>
              Unwrap(RequestBody.generation_config).response_schema =
                 UnaryRequest.output_schema

Answered == Responded /\ UnaryResult.ok
WireBody == UnaryResponse.body

\* The parts of the first candidate of the body the provider sent
FirstParts == Unwrap(Head(WireBody.candidates).content).parts

IsText(part) == "text" \in DOMAIN part
TextsOf(parts) ==
    LET texts == SelectSeq(parts, IsText) IN [k \in 1..Len(texts) |-> texts[k].text]
CallsOf(parts) ==
    LET calls == SelectSeq(parts, LAMBDA part : ~IsText(part))
    IN [k \in 1..Len(calls) |-> calls[k].function_call]

\* The texts, one newline between each two that follow each other
RECURSIVE JoinLines(_)
JoinLines(texts) ==
    IF Len(texts) = 1
    THEN Head(texts)
    ELSE Head(texts) \o <<Newline>> \o JoinLines(Tail(texts))

\* C16: a unary response has for content the text parts of the first
\* candidate, in their order, with one newline between consecutive ones, and
\* for tool calls its function-call parts, in their order, each with its
\* name for id and the provider's args for arguments.
C16_FirstCandidateParts ==
    Answered =>
        /\ UnaryResult.val.content =
              IF TextsOf(FirstParts) = <<>> THEN None
              ELSE Some(JoinLines(TextsOf(FirstParts)))
        /\ (IF IsSome(UnaryResult.val.tool_calls)
            THEN Unwrap(UnaryResult.val.tool_calls) ELSE <<>>) =
              [k \in 1..Len(CallsOf(FirstParts)) |->
                  [name |-> CallsOf(FirstParts)[k].name,
                   arguments |-> CallsOf(FirstParts)[k].args,
                   id |-> CallsOf(FirstParts)[k].name]]

C16_Witness ==
    /\ Answered
    /\ Len(WireBody.candidates) = 2
    /\ Len(FirstParts) = MaxParts
    /\ IsText(FirstParts[1])
    /\ ~IsText(FirstParts[2])
    /\ IsText(FirstParts[3])
    /\ FirstParts[1] # FirstParts[3]

\* C17: a unary call whose response body, read and decoded, has no usage
\* metadata has returned the server error, the one about the usage when the
\* first candidate has content; a unary response carries the prompt and
\* completion token counts of the body.
C17_UsageRequired ==
    /\ (/\ Responded
        /\ IsSuccess(UnaryResponse.status)
        /\ WireBody.kind = "json"
        /\ WireBody.usage_metadata = None) =>
          /\ ~UnaryResult.ok
          /\ UnaryResult.err.kind = "GCPVertexServer"
          /\ (WireBody.candidates # <<>> /\ IsSome(Head(WireBody.candidates).content)) =>
                UnaryResult.err.message =
                   "GCP Vertex Gemini non-streaming response has no usage metadata"
    /\ Answered =>
          /\ IsSome(WireBody.usage_metadata)
          /\ UnaryResult.val.usage.prompt_tokens =
                Unwrap(WireBody.usage_metadata).prompt_token_count
          /\ UnaryResult.val.usage.completion_tokens =
                Unwrap(WireBody.usage_metadata).candidates_token_count

C17_Witness ==
    /\ Responded
    /\ IsSuccess(UnaryResponse.status)
    /\ WireBody.kind = "json"
    /\ WireBody.usage_metadata = None
    /\ WireBody.candidates # <<>>
    /\ IsSome(Head(WireBody.candidates).content)
    /\ FirstParts # <<>>
    /\ ~UnaryResult.ok

\* C18: the raw of a unary response is the body the provider sent, the
\* fields the response structs lack included.
C18_RawIsVerbatim ==
    Answered => UnaryResult.val.raw = WireBody

-----------------------------------------------------------------------------
(* Properties of the conversion of the episode ids *)

Converted == conv.pc = "done"
Resolved == Unwrap(conv.result)
Supplied == Unwrap(conv.episode_ids)
EarlyPositions ==
    {i \in 1..Len(Supplied) : IsSome(Supplied[i]) /\ Unwrap(Supplied[i]) < EpisodeFloor}

EarlyRejected ==
    /\ ~Resolved.ok
    /\ Resolved.err =
          BatchInputValidation(
              (CHOOSE i \in EarlyPositions : \A j \in EarlyPositions : i <= j) - 1,
              "Invalid Episode ID: Timestamp is too early")

\* C20 as stated: the conversion of an array that holds an id earlier than
\* the floor has failed with BatchInputValidation, its index the first
\* position of such an id, its message the one about the timestamp.
C20_EarlyEpisodeId ==
    (Converted /\ IsSome(conv.episode_ids) /\ EarlyPositions # {}) => EarlyRejected

\* C20 amended: the conversion of an array of N entries that holds an id
\* earlier than the floor has failed with BatchInputValidation, its index
\* the first position of such an id, its message the one about the
\* timestamp; an array of another length has failed with InvalidRequest.
C20_EarlyEpisodeIdOfLengthN ==
    (Converted /\ IsSome(conv.episode_ids) /\ EarlyPositions # {}) =>
        IF Len(Supplied) = conv.num_inferences
        THEN EarlyRejected
        ELSE ~Resolved.ok /\ Resolved.err.kind = "InvalidRequest"

C20_Witness ==
    /\ Converted
    /\ IsSome(conv.episode_ids)
    /\ Len(Supplied) = conv.num_inferences
    /\ Cardinality(EarlyPositions) > 1
    /\ ~Resolved.ok

-----------------------------------------------------------------------------
(* Properties of get_batch_request *)

\* The BatchRequest rows a query is about: those of the batch asked for, or
\* of the batch the inference asked for belongs to
Matching(q) ==
    {k \in 1..Len(brRows) :
        \/ q.kind = "Batch" /\ brRows[k].batch_id = q.id
        \/ /\ q.kind = "Inference"
           /\ \E r \in bmiRows :
                 r.inference_id = q.id /\ r.batch_id = brRows[k].batch_id}

GetBatchRequestLatest(p) ==
    LET q == p.queries[1]
    IN IF Matching(q) = {}
       THEN /\ p.batch_request = None
            /\ p.outcome = Err([kind |-> "BatchNotFound", id |-> q.id])
       ELSE /\ IsSome(p.batch_request)
            /\ \E k \in Matching(q) :
                  /\ brRows[k] = Unwrap(p.batch_request)
                  /\ \A j \in Matching(q) : brRows[j].timestamp <= brRows[k].timestamp

-----------------------------------------------------------------------------
(* Properties of both entry points of the provider *)

ApiKeyMissing == Err([kind |-> "ApiKeyMissing", provider_name |-> "GCP Vertex Gemini"])

\* The credentials are what a call looks for first, and a call that found
\* none did nothing else, sent no request and returned ApiKeyMissing.
CredentialsFirst(c) ==
    c.steps # <<>> =>
        /\ c.steps[1].step = "credentials"
        /\ ~c.steps[1].ok =>
              /\ Len(c.steps) = 1
              /\ c.posts = 0
              /\ c.pc = "returned"
              /\ c.result = Some(ApiKeyMissing)

\* C25: infer and infer_stream of a provider without credentials fail with
\* ApiKeyMissing of "GCP Vertex Gemini", the absence being found before the
\* request is translated, before the token is signed and before any request
\* is handed to the HTTP client: no POST is sent.
C25_ApiKeyMissingFirst ==
    /\ CredentialsFirst(unary)
    /\ unary.steps # <<>> /\ ~unary.steps[1].ok =>
          unary.request = None /\ unary.request_body = None
    /\ CredentialsFirst(call)
    /\ call.steps # <<>> /\ ~call.steps[1].ok => call.stream = FALSE /\ upstream = <<>>

C25_Witness ==
    /\ unary.result = Some(ApiKeyMissing)
    /\ call.result = Some(ApiKeyMissing)
    /\ unary.steps = <<Step("credentials", FALSE)>>
    /\ call.steps = <<Step("credentials", FALSE)>>

-----------------------------------------------------------------------------
(* Further properties of the batch submit *)

Attempted == {sub.attempts[i].variant : i \in 1..Len(sub.attempts)}

C24_OneVariantPerBatch ==
    /\ \A i \in 1..Len(sub.attempts) : sub.attempts[i].key = sub.episode_ids[1]
    /\ (IsSome(sub.result) /\ sub.pc \in {"write_request", "done"}) =>
          /\ ~Failed(Len(sub.attempts))
          /\ \A r \in RowsOfBatch(Unwrap(sub.result).batch_id) :
                /\ r.variant_name = sub.attempts[Len(sub.attempts)].variant
                /\ r.model_name = ModelOf(r.variant_name)
                /\ r.model_provider_name = ProviderOf(r.variant_name)

C24_Witness ==
    /\ Succeeded
    /\ Len(sub.attempts) = 2
    /\ sub.episode_ids[1] # sub.episode_ids[Len(sub.episode_ids)]
    /\ Cardinality(RowsOfBatch(Response.val.batch_id)) = MaxN

\* C26: when the request had no episode_ids and the submit succeeded, the
\* episode id of each inference is its inference id, in the response and in
\* its row.
C26_EpisodeIdIsInferenceId ==
    (Succeeded /\ sub.omitted) =>
        /\ \A i \in 1..sub.n :
              Response.val.episode_ids[i] = Response.val.inference_ids[i]
        /\ \A r \in RowsOfBatch(Response.val.batch_id) :
              r.episode_id = r.inference_id

\* C27: when the submit has returned an error after a variant started a
\* batch, the store holds neither BatchModelInference rows nor a
\* BatchRequest row of that batch.
C27_AllOrNothing ==
    (Returned /\ ~Response.ok /\ IsSome(sub.result)) =>
        /\ RowsOfBatch(Unwrap(sub.result).batch_id) = {}
        /\ RequestsOfBatch(Unwrap(sub.result).batch_id) = {}

RejectedByValidation ==
    /\ Returned
    /\ ~Response.ok
    /\ Response.err.kind \in {"InvalidRequest", "BatchInputValidation", "UnknownVariant"}

\* C28: a submit that validation rejected (no inputs, an array of the wrong
\* length, an input the function refuses, an episode id that is too early,
\* a pinned variant the function has not) asked no variant to start a batch
\* and sent no write to the store, whose tables hold what they held before.
C28_RejectedBeforeAnyCall ==
    RejectedByValidation =>
        /\ sub.attempts = <<>>
        /\ sub.result = None
        /\ sub.writes = <<>>
        /\ submits = 1 =>
              /\ bmiRows \subseteq OldInferenceRows
              /\ \A k \in 1..Len(brRows) : brRows[k].batch_id = OldBatch

C28_Witness ==
    /\ RejectedByValidation
    /\ Response.err.kind = "InvalidRequest"
    /\ sub.mismatched \cap ParamFieldSet # {}
    /\ Cardinality(sub.initial) = 2

-----------------------------------------------------------------------------
(* Properties of the conversion of the inference params *)

ParamsResult == Unwrap(conv.result)
FieldOrder ==
    <<"temperature", "max_tokens", "seed", "top_p", "presence_penalty",
      "frequency_penalty">>
WrongLength(k) ==
    /\ IsSome(conv.params[FieldOrder[k]])
    /\ Len(Unwrap(conv.params[FieldOrder[k]])) # conv.num_inferences

\* C21: when arrays of the params have a length other than N, the conversion
\* has failed with the InvalidRequest of the first of them in the order
\* temperature, max_tokens, seed, top_p, presence_penalty,
\* frequency_penalty: it names that field, its length and N.
C21_FirstMismatchReported ==
    Converted =>
        \A k \in 1..Len(FieldOrder) :
            (WrongLength(k) /\ \A j \in 1..(k - 1) : ~WrongLength(j)) =>
                /\ ~ParamsResult.ok
                /\ ParamsResult.err =
                      [kind |-> "InvalidRequest", field |-> FieldOrder[k],
                       actual |-> Len(Unwrap(conv.params[FieldOrder[k]])),
                       expected |-> conv.num_inferences]

C21_Witness ==
    /\ Converted
    /\ WrongLength(1)
    /\ WrongLength(2)
    /\ Len(Unwrap(conv.params.temperature)) # Len(Unwrap(conv.params.max_tokens))
    /\ ~ParamsResult.ok

\* C22: when every provided array has length N, the conversion has given N
\* InferenceParams, and at each index each field holds the entry of its
\* array at that index, or None when the array was not provided.
C22_ParamsByIndex ==
    (Converted /\ \A k \in 1..Len(FieldOrder) : ~WrongLength(k)) =>
        /\ ParamsResult.ok
        /\ Len(ParamsResult.val) = conv.num_inferences
        /\ \A i \in 1..conv.num_inferences : \A k \in 1..Len(FieldOrder) :
              ParamsResult.val[i].chat_completion[FieldOrder[k]] =
                 IF IsSome(conv.params[FieldOrder[k]])
                 THEN Unwrap(conv.params[FieldOrder[k]])[i]
                 ELSE None

C22_Witness ==
    /\ Converted
    /\ ParamsResult.ok
    /\ conv.num_inferences = MaxN
    /\ IsSome(conv.params.temperature)
    /\ IsSome(conv.params.seed)
    /\ conv.params.temperature # conv.params.seed
    /\ Unwrap(conv.params.seed)[1] # Unwrap(conv.params.seed)[MaxN]

\* C29: two inferences of one converted batch have the same episode id only
\* if the caller supplied that id for both: the ids minted for an omitted
\* array or for absent entries are pairwise distinct.
C29_MintedIdsDistinct ==
    (Converted /\ Resolved.ok) =>
        \A i, j \in 1..Len(Resolved.val) :
            (i # j /\ Resolved.val[i] = Resolved.val[j]) =>
                /\ IsSome(conv.episode_ids)
                /\ IsSome(Supplied[i])
                /\ Supplied[i] = Supplied[j]

====
